---- MODULE Spec2Model ----
(***************************************************************************)
(* Model of src/main.py: the YDK deck parser (process_deck_file), the      *)
(* thread-pool aggregation (parse_ydk_files_parallel), the co-occurrence   *)
(* graph (build_graph) and the unused-cards report (print_statistics).     *)
(*                                                                         *)
(* A text line is a sequence of one-character strings, so that strip(),    *)
(* lower(), startswith(), isdigit() and the string order used by sorted()  *)
(* are computed the way Python computes them.                              *)
(***************************************************************************)
EXTENDS Integers, Sequences, FiniteSets, TLC

VARIABLES card_dict, files, worker, futures, completed, read_error,
          total_global, total_deck_type, total_occurrences, total_cooccurrence,
          pc, min_edge_weight, G, unused_cards

vars == <<card_dict, files, worker, futures, completed, read_error,
          total_global, total_deck_type, total_occurrences, total_cooccurrence,
          pc, min_edge_weight, G, unused_cards>>

(***************************************************************************)
(* Bounds of the model.                                                    *)
(***************************************************************************)
\* number of deck files found by glob in the pool specification
NumFiles == 2
\* longest deck file, in raw lines, that Init enumerates
MaxLines == 3
\* largest edge-weight threshold handed to build_graph
MaxThreshold == 3

(***************************************************************************)
(* Characters and strings.                                                 *)
(***************************************************************************)
DigitChars == <<"0", "1", "2", "3", "4", "5", "6", "7", "8", "9">>

UpperChars == <<"A", "B", "C", "D", "E", "F", "G", "H", "I", "J", "K", "L", "M",
                "N", "O", "P", "Q", "R", "S", "T", "U", "V", "W", "X", "Y", "Z">>

LowerChars == <<"a", "b", "c", "d", "e", "f", "g", "h", "i", "j", "k", "l", "m",
                "n", "o", "p", "q", "r", "s", "t", "u", "v", "w", "x", "y", "z">>

Whitespace == {" ", "\t", "\n", "\r"}

IndexIn(seq, ch) == CHOOSE i \in 1..Len(seq) : seq[i] = ch

IsDigitChar(ch) == \E i \in 1..Len(DigitChars) : DigitChars[i] = ch

\* code point of a digit character: ord("0") = 48
CodePoint(ch) == 47 + IndexIn(DigitChars, ch)

\* str.lower() on one character
LowerChar(ch) ==
    IF \E i \in 1..Len(UpperChars) : UpperChars[i] = ch
    THEN LowerChars[IndexIn(UpperChars, ch)]
    ELSE ch

\* str.lower()
Lower(s) == [i \in 1..Len(s) |-> LowerChar(s[i])]

\* str.strip(): drop leading and trailing whitespace
Strip(s) ==
    LET keep == {i \in 1..Len(s) : s[i] \notin Whitespace}
    IN  IF keep = {} THEN <<>>
        ELSE LET lo == CHOOSE i \in keep : \A j \in keep : i <= j
                 hi == CHOOSE i \in keep : \A j \in keep : j <= i
             IN  SubSeq(s, lo, hi)

\* str.startswith(prefix)
StartsWith(s, prefix) ==
    /\ Len(s) >= Len(prefix)
    /\ SubSeq(s, 1, Len(prefix)) = prefix

\* str.isdigit(): non-empty and every character a decimal digit
IsDigit(s) == Len(s) > 0 /\ \A i \in 1..Len(s) : IsDigitChar(s[i])

\* Python's < on two strings of digits: lexicographic by code point
StrLess(a, b) ==
    \/ \E i \in 1..Len(a) :
          /\ i <= Len(b)
          /\ \A j \in 1..(i - 1) : a[j] = b[j]
          /\ CodePoint(a[i]) < CodePoint(b[i])
    \/ /\ Len(a) < Len(b)
       /\ SubSeq(b, 1, Len(a)) = a

\* the pair in the order itertools.combinations yields it, not sorted
SortedPair_Unsorted(card1, card2) == <<card1, card2>>

\* tuple(sorted((card1, card2)))
SortedPair(card1, card2) ==
    IF StrLess(card2, card1) THEN <<card2, card1>> ELSE <<card1, card2>>

(***************************************************************************)
(* collections.Counter: a function from the keys it holds to their counts. *)
(***************************************************************************)
EmptyCounter == [k \in {} |-> 0]

\* Counter.get(k, 0) and Counter[k] for a missing key
Count(c, k) == IF k \in DOMAIN c THEN c[k] ELSE 0

\* c[k] += 1
Increment(c, k) == [x \in DOMAIN c \cup {k} |-> Count(c, x) + (IF x = k THEN 1 ELSE 0)]

\* dict.update(other) in place of Counter.update: the counts of other replace
\* the counts held
CounterUpdate_Overwrite(c, other) ==
    [x \in DOMAIN c \cup DOMAIN other |-> IF x \in DOMAIN other THEN other[x] ELSE c[x]]

\* Counter.update(other): add the counts of other, key by key
CounterUpdate(c, other) ==
    [x \in DOMAIN c \cup DOMAIN other |-> Count(c, x) + Count(other, x)]

EmptyDeckType == [main |-> EmptyCounter, extra |-> EmptyCounter, side |-> EmptyCounter]

Sections == {"main", "extra", "side"}


(***************************************************************************)
(* process_deck_file.                                                      *)
(***************************************************************************)
HashMain == <<"#", "m", "a", "i", "n">>

HashExtra == <<"#", "e", "x", "t", "r", "a">>

\* lines = [line.strip() for line in f if line.strip()]
StrippedLines(file) ==
    LET stripped == [i \in 1..Len(file) |-> Strip(file[i])]
    IN  SelectSeq(stripped, LAMBDA l : l # <<>>)

\* the four empty counters process_deck_file starts from, and returns on a
\* read error
EmptyResult ==
    [global_freq |-> EmptyCounter, deck_type_freq |-> EmptyDeckType,
     deck_occurrences |-> EmptyCounter, cooccurrence |-> EmptyCounter]

\* the locals of process_deck_file before its loop
InitialLocals ==
    [current_section |-> "None", global_freq |-> EmptyCounter,
     deck_type_freq |-> EmptyDeckType, deck_cards |-> <<>>, deck_cards_set |-> {}]

\* current_section after a line that starts with "#"
SectionAfterHash(line) ==
    IF Lower(line) = HashMain THEN "main"
    ELSE IF Lower(line) = HashExtra THEN "extra"
    ELSE "None"

\* a "!" line that selects SIDE only when it reads "!side", and otherwise
\* clears the section the way an unrecognized "#" line does
SectionAfterBang_TextDecides(line) ==
    IF Lower(line) = <<"!", "s", "i", "d", "e">> THEN "side" ELSE "None"

\* current_section after a line that starts with "!"
SectionAfterBang(line) == "side"

\* the counting of one all-digit line
CountCard(st, card_id) ==
    [st EXCEPT
        !.global_freq = Increment(@, card_id),
        !.deck_type_freq =
            IF st.current_section \in Sections
            THEN [@ EXCEPT ![st.current_section] = Increment(@, card_id)]
            ELSE @,
        !.deck_cards = Append(@, card_id),
        !.deck_cards_set = @ \cup {card_id}]

\* one iteration of "for line in lines"
ParseLine(st, line) ==
    IF StartsWith(line, <<"#">>)
    THEN [st EXCEPT !.current_section = SectionAfterHash(line)]
    ELSE IF StartsWith(line, <<"!">>)
    THEN [st EXCEPT !.current_section = SectionAfterBang(line)]
    ELSE IF ~IsDigit(line) THEN st
    ELSE CountCard(st, line)

\* the whole loop over lines
RECURSIVE ParseLines(_, _)
ParseLines(st, lines) ==
    IF lines = <<>> THEN st
    ELSE ParseLines(ParseLine(st, Head(lines)), Tail(lines))

\* the orders in which a Python set of strings may be iterated
IterationOrders(S) ==
    {o \in [1..Cardinality(S) -> S] :
        \A i, j \in 1..Cardinality(S) : i # j => o[i] # o[j]}

\* itertools.combinations(deck_cards_set, 2): the pairs of positions i < j of the
\* set's iteration order
Combinations(order) ==
    {<<order[p[1]], order[p[2]]>> :
        p \in {q \in (1..Len(order)) \X (1..Len(order)) : q[1] < q[2]}}

\* for card in deck_cards_set: deck_occurrences[card] += 1
DeckOccurrences(deck_cards_set) == [card \in deck_cards_set |-> 1]

\* for card1, card2 in combinations: cooccurrence[tuple(sorted(...))] += 1
Cooccurrence(order) ==
    LET combos == Combinations(order)
        keys   == {SortedPair(c[1], c[2]) : c \in combos}
    IN  [pair \in keys |->
            Cardinality({c \in combos : SortedPair(c[1], c[2]) = pair})]

\* what process_deck_file returns once its loop has ended with locals st
ReturnValue(st, order) ==
    [global_freq |-> st.global_freq, deck_type_freq |-> st.deck_type_freq,
     deck_occurrences |-> DeckOccurrences(st.deck_cards_set),
     cooccurrence |-> Cooccurrence(order)]

\* no exception while the file is opened and read
NoError == -1

\* the points at which reading a file may raise: at open (0) or after k lines
ReadOutcomes(file) == {NoError} \cup (0..Len(file))

\* the try/except around the read: the lines, or the exception that discards
\* whatever was read before it
ReadFile(file, raised_at) ==
    IF raised_at = NoError
    THEN [ok |-> TRUE, lines |-> StrippedLines(file)]
    ELSE [ok |-> FALSE, lines |-> <<>>]

\* a read error that keeps what the lines read before it have counted
process_deck_file_KeepsPartial(file, raised_at, order) ==
    IF raised_at = NoError
    THEN ReturnValue(ParseLines(InitialLocals, StrippedLines(file)), order)
    ELSE ReturnValue(ParseLines(InitialLocals,
                                StrippedLines(SubSeq(file, 1, raised_at))), order)

\* process_deck_file(file_path), the read raising at raised_at (or not at all)
\* and the deck's card set being iterated in the given order
process_deck_file(file, raised_at, order) ==
    LET read == ReadFile(file, raised_at)
    IN  IF ~read.ok THEN EmptyResult
        ELSE ReturnValue(ParseLines(InitialLocals, read.lines), order)

(***************************************************************************)
(* parse_ydk_files_parallel: merging one future's result into the totals.  *)
(***************************************************************************)
\* total_deck_type[section].update(deck_type_freq[section]) for each section
DeckTypeUpdate(total, deck_type_freq) ==
    [section \in Sections |-> CounterUpdate(total[section], deck_type_freq[section])]

\* the body of the as_completed loop, for one future's result
MergeResult(totals, result) ==
    [global_freq      |-> CounterUpdate(totals.global_freq, result.global_freq),
     deck_type_freq   |-> DeckTypeUpdate(totals.deck_type_freq, result.deck_type_freq),
     deck_occurrences |-> CounterUpdate(totals.deck_occurrences, result.deck_occurrences),
     cooccurrence     |-> CounterUpdate(totals.cooccurrence, result.cooccurrence)]

(***************************************************************************)
(* build_graph on networkx.Graph: node attributes, and a symmetric         *)
(* adjacency map holding each edge's weight under both of its endpoints.   *)
(***************************************************************************)
EmptyGraph == [node |-> [n \in {} |-> 0], adj |-> [n \in {} |-> 0]]

\* card_dict.get(card_id, {}).get("name", f"Unknown ({card_id})")
CardLabel(cards, card_id) ==
    IF card_id \in DOMAIN cards THEN cards[card_id].name ELSE <<"Unknown", card_id>>

\* nx.Graph.add_node(n, **attr)
AddNode(g, n, attr) ==
    [node |-> [x \in DOMAIN g.node \cup {n} |-> IF x = n THEN attr ELSE g.node[x]],
     adj  |-> [x \in DOMAIN g.adj \cup {n} |->
                  IF x \in DOMAIN g.adj THEN g.adj[x] ELSE EmptyCounter]]

\* nx.Graph.add_edge(u, v, weight=w): adj[u][v] = adj[v][u] = w
AddEdge(g, u, v, w) ==
    LET nodes == DOMAIN g.adj \cup {u, v}
        old(x) == IF x \in DOMAIN g.adj THEN g.adj[x] ELSE EmptyCounter
        put(nbrs, y) == [z \in DOMAIN nbrs \cup {y} |-> IF z = y THEN w ELSE nbrs[z]]
    IN  [node |-> [x \in DOMAIN g.node \cup {u, v} |->
                      IF x \in DOMAIN g.node THEN g.node[x] ELSE EmptyCounter],
         adj  |-> [x \in nodes |->
                      IF x = u /\ x = v THEN put(old(x), x)
                      ELSE IF x = u THEN put(old(x), v)
                      ELSE IF x = v THEN put(old(x), u)
                      ELSE old(x)]]

\* the loop over global_freq.items(): one node per key
RECURSIVE AddNodes(_, _, _, _)
AddNodes(g, global_freq, cards, todo) ==
    IF todo = {} THEN g
    ELSE LET card_id == CHOOSE c \in todo : TRUE
         IN  AddNodes(AddNode(g, card_id,
                              [label |-> CardLabel(cards, card_id),
                               count |-> global_freq[card_id]]),
                      global_freq, cards, todo \ {card_id})

\* a strict comparison in place of >=
PassesThreshold_Strict(weight, threshold) == weight > threshold

\* the comparison the wrong way round
PassesThreshold_Reversed(weight, threshold) == weight <= threshold

\* if weight >= min_edge_weight
PassesThreshold(weight, threshold) == weight >= threshold

\* the loop over cooccurrence.items(): one edge per pair that passes the
\* threshold and whose two cards are nodes
RECURSIVE AddEdges(_, _, _, _)
AddEdges(g, cooccurrence, threshold, todo) ==
    IF todo = {} THEN g
    ELSE LET pair == CHOOSE q \in todo : TRUE
             next == IF /\ PassesThreshold(cooccurrence[pair], threshold)
                        /\ pair[1] \in DOMAIN g.node
                        /\ pair[2] \in DOMAIN g.node
                     THEN AddEdge(g, pair[1], pair[2], cooccurrence[pair])
                     ELSE g
         IN  AddEdges(next, cooccurrence, threshold, todo \ {pair})

build_graph(global_freq, cooccurrence, cards, threshold) ==
    AddEdges(AddNodes(EmptyGraph, global_freq, cards, DOMAIN global_freq),
             cooccurrence, threshold, DOMAIN cooccurrence)

\* G.edges: the unordered pairs of adjacent nodes (a self-loop is a singleton)
Edges(g) ==
    {{q[1], q[2]} :
        q \in {r \in (DOMAIN g.adj) \X (DOMAIN g.adj) : r[2] \in DOMAIN g.adj[r[1]]}}

(***************************************************************************)
(* print_statistics: the unused-cards report.                              *)
(***************************************************************************)
\* [card["name"] for cid, card in card_dict.items() if cid not in global_freq]
UnusedCards(global_freq, cards) ==
    {cards[cid].name : cid \in {c \in DOMAIN cards : c \notin DOMAIN global_freq}}

(***************************************************************************)
(* The inputs: the card catalog and the deck files.                        *)
(***************************************************************************)
\* the catalog's name of a card
CardName(card_id) == <<"Name">> \o card_id

\* ids of the cards a catalog may list
CatalogIds == {<<"7">>}

\* fetch_card_info: card_dict[str(card["id"])] = card
Catalogs == {[cid \in ids |-> [name |-> CardName(cid)]] : ids \in SUBSET CatalogIds}

\* raw lines a deck file of the parser specification is made of
ParserPalette ==
    { <<"#", "m", "a", "i", "n">>,
      <<"#", "E", "X", "T", "R", "A">>,
      <<"#", "s", "i", "d", "e">>,
      <<"#", "E", "x", "t", "r", "a", " ", "D", "e", "c", "k">>,
      <<"#", " ", "m", "a", "i", "n", " ", "d", "e", "c", "k">>,
      <<"#", "c", "r", "e", "a", "t", "e", "d">>,
      <<"!", "s", "i", "d", "e">>,
      <<"!", "m", "a", "i", "n">>,
      <<"2">>,
      <<"1", "0">>,
      <<" ", "2", " ">>,
      <<"2", "a">>,
      <<" ">> }

\* every file of at most n lines over a palette
FilesOver(palette, n) == UNION {[1..k -> palette] : k \in 0..n}

\* the example deck: #main 1 1 2 #extra 3 !side 4
ExampleDeck ==
    << <<"#", "m", "a", "i", "n">>, <<"1">>, <<"1">>, <<"2">>,
       <<"#", "e", "x", "t", "r", "a">>, <<"3">>,
       <<"!", "s", "i", "d", "e">>, <<"4">> >>

ParserFiles == FilesOver(ParserPalette, MaxLines) \cup {ExampleDeck}

\* the deck files the pool specification draws its corpus from: a file
\* without cards, duplicate copies, all three sections, a card before the
\* first marker, a single-card deck, and a side-only deck
DeckCorpus ==
    { << <<"#", "c", "r", "e", "a", "t", "e", "d">>, <<"2", "a">> >>,
      << <<"#", "m", "a", "i", "n">>, <<"2">>, <<"2">>, <<"1", "0">> >>,
      << <<"#", "m", "a", "i", "n">>, <<"2">>, <<"#", "e", "x", "t", "r", "a">>,
         <<"1", "0">>, <<"!", "s", "i", "d", "e">>, <<"7">> >>,
      << <<"1", "0">>, <<"#", "m", "a", "i", "n">>, <<"2">> >>,
      << <<"#", "M", "a", "i", "n">>, <<"7">> >>,
      << <<"!", "s", "i", "d", "e">>, <<"1", "0">>, <<"1", "0">>, <<"2">> >> }

PoolFiles == DeckCorpus

(***************************************************************************)
(* State.                                                                  *)
(*   card_dict             the catalog loaded by fetch_card_info           *)
(*   files                 the deck files found by glob, by index          *)
(*   worker[f]             the locals of the pool task running file f      *)
(*   futures[f]            the future of file f: its state and result      *)
(*   completed             the futures as_completed has still to yield     *)
(*   read_error            the files whose read raised (the logged errors) *)
(*   total_*               the collecting thread's four totals             *)
(*   pc                    where main is                                   *)
(*   min_edge_weight, G    build_graph's threshold and its graph           *)
(*   unused_cards          print_statistics' unused-cards report           *)
(***************************************************************************)
\* build_graph's default threshold, and the one main passes
DefaultMinEdgeWeight == 3

Totals ==
    [global_freq |-> total_global, deck_type_freq |-> total_deck_type,
     deck_occurrences |-> total_occurrences, cooccurrence |-> total_cooccurrence]

FileIds == DOMAIN files

InitCommon ==
    /\ worker = [f \in FileIds |->
                    [pc |-> "open", lines |-> <<>>, i |-> 1, st |-> InitialLocals]]
    /\ futures = [f \in FileIds |-> [state |-> "pending", result |-> EmptyResult]]
    /\ completed = <<>>
    /\ read_error = {}
    /\ total_global = EmptyCounter
    /\ total_deck_type = EmptyDeckType
    /\ total_occurrences = EmptyCounter
    /\ total_cooccurrence = EmptyCounter
    /\ pc = "parse"
    /\ min_edge_weight = DefaultMinEdgeWeight
    /\ G = EmptyGraph
    /\ unused_cards = {}

\* every catalog, NumFiles deck files, every future submitted
Init ==
    /\ card_dict \in Catalogs
    /\ files \in [1..NumFiles -> PoolFiles]
    /\ InitCommon

\* one deck file, every content up to MaxLines lines
InitParser ==
    /\ card_dict = [cid \in CatalogIds |-> [name |-> CardName(cid)]]
    /\ files \in [{1} -> ParserFiles]
    /\ InitCommon

\* a future completes: its result is set and as_completed will yield it
Complete(f, result) ==
    /\ futures' = [futures EXCEPT ![f] = [state |-> "finished", result |-> result]]
    /\ completed' = Append(completed, f)

\* a pool thread runs process_deck_file(file) from start to return
RunTask(f) ==
    /\ futures[f].state = "pending"
    /\ worker[f].pc = "open"
    /\ \E raised_at \in ReadOutcomes(files[f]) :
          LET read == ReadFile(files[f], raised_at)
              st   == ParseLines(InitialLocals, read.lines)
          IN  /\ read_error' = IF read.ok THEN read_error ELSE read_error \cup {f}
              /\ \E order \in IterationOrders(st.deck_cards_set) :
                    /\ Complete(f, process_deck_file(files[f], raised_at, order))
                    /\ worker' = [worker EXCEPT ![f] =
                                     [pc |-> "returned", lines |-> read.lines,
                                      i |-> Len(read.lines) + 1, st |-> st]]
    /\ UNCHANGED <<card_dict, files, total_global, total_deck_type, total_occurrences,
                   total_cooccurrence, pc, min_edge_weight, G, unused_cards>>

\* process_deck_file, step by step: the try block that opens and reads the file
OpenAndRead(f) ==
    /\ futures[f].state = "pending"
    /\ worker[f].pc = "open"
    /\ \E raised_at \in ReadOutcomes(files[f]) :
          LET read == ReadFile(files[f], raised_at)
          IN  IF read.ok
              THEN /\ worker' = [worker EXCEPT ![f].pc = "loop", ![f].lines = read.lines]
                   /\ UNCHANGED <<futures, completed, read_error>>
              ELSE /\ worker' = [worker EXCEPT ![f].pc = "returned"]
                   /\ read_error' = read_error \cup {f}
                   /\ Complete(f, EmptyResult)
    /\ UNCHANGED <<card_dict, files, total_global, total_deck_type, total_occurrences,
                   total_cooccurrence, pc, min_edge_weight, G, unused_cards>>

\* process_deck_file, step by step: one iteration of the loop over lines
ParseNextLine(f) ==
    /\ worker[f].pc = "loop"
    /\ worker[f].i <= Len(worker[f].lines)
    /\ worker' = [worker EXCEPT
                     ![f].st = ParseLine(@, worker[f].lines[worker[f].i]),
                     ![f].i = @ + 1]
    /\ UNCHANGED <<card_dict, files, futures, completed, read_error, total_global,
                   total_deck_type, total_occurrences, total_cooccurrence, pc,
                   min_edge_weight, G, unused_cards>>

\* process_deck_file, step by step: the two loops over deck_cards_set, and return
CountDeckAndReturn(f) ==
    /\ worker[f].pc = "loop"
    /\ worker[f].i > Len(worker[f].lines)
    /\ \E order \in IterationOrders(worker[f].st.deck_cards_set) :
          Complete(f, ReturnValue(worker[f].st, order))
    /\ worker' = [worker EXCEPT ![f].pc = "returned"]
    /\ UNCHANGED <<card_dict, files, read_error, total_global, total_deck_type,
                   total_occurrences, total_cooccurrence, pc, min_edge_weight, G,
                   unused_cards>>

\* the collecting thread takes the next completed future and merges its result
Collect ==
    /\ pc = "parse"
    /\ completed # <<>>
    /\ LET f      == Head(completed)
           merged == MergeResult(Totals, futures[f].result)
       IN  /\ total_global' = merged.global_freq
           /\ total_deck_type' = merged.deck_type_freq
           /\ total_occurrences' = merged.deck_occurrences
           /\ total_cooccurrence' = merged.cooccurrence
           /\ futures' = [futures EXCEPT ![f].state = "collected"]
    /\ completed' = Tail(completed)
    /\ UNCHANGED <<card_dict, files, worker, read_error, pc, min_edge_weight, G,
                   unused_cards>>

\* as_completed is exhausted: parse_ydk_files_parallel returns the totals
ReturnTotals ==
    /\ pc = "parse"
    /\ \A f \in FileIds : futures[f].state = "collected"
    /\ pc' = "build"
    /\ UNCHANGED <<card_dict, files, worker, futures, completed, read_error,
                   total_global, total_deck_type, total_occurrences,
                   total_cooccurrence, min_edge_weight, G, unused_cards>>

\* the thresholds build_graph is called with
Thresholds == 0..MaxThreshold

\* G = build_graph(global_freq, cooccurrence, card_dict, min_edge_weight)
BuildGraph ==
    /\ pc = "build"
    /\ \E threshold \in Thresholds :
          /\ min_edge_weight' = threshold
          /\ G' = build_graph(total_global, total_cooccurrence, card_dict, threshold)
    /\ pc' = "print"
    /\ UNCHANGED <<card_dict, files, worker, futures, completed, read_error,
                   total_global, total_deck_type, total_occurrences,
                   total_cooccurrence, unused_cards>>

\* print_statistics(global_freq, deck_type_freq, deck_occurrences, card_dict)
PrintStatistics ==
    /\ pc = "print"
    /\ unused_cards' = UnusedCards(total_global, card_dict)
    /\ pc' = "done"
    /\ UNCHANGED <<card_dict, files, worker, futures, completed, read_error,
                   total_global, total_deck_type, total_occurrences,
                   total_cooccurrence, min_edge_weight, G>>

Next ==
    \/ \E f \in FileIds : RunTask(f)
    \/ Collect
    \/ ReturnTotals
    \/ BuildGraph
    \/ PrintStatistics

Spec == Init /\ [][Next]_vars

NextParser ==
    \/ \E f \in FileIds : OpenAndRead(f)
    \/ \E f \in FileIds : ParseNextLine(f)
    \/ \E f \in FileIds : CountDeckAndReturn(f)
    \/ Collect
    \/ ReturnTotals

SpecParser == InitParser /\ [][NextParser]_vars

(***************************************************************************)
(* Vocabulary of the properties.                                           *)
(***************************************************************************)
\* the cards on the all-digit lines of a deck file
CardsOf(file) ==
    LET lines == StrippedLines(file)
    IN  {lines[i] : i \in {j \in 1..Len(lines) : IsDigit(lines[j])}}

\* s contains sub as a substring
Contains(s, sub) ==
    \E i \in 1..(Len(s) - Len(sub) + 1) : SubSeq(s, i, i + Len(sub) - 1) = sub

\* the section words of a marker line's text, in any letter case
WordOf(section) ==
    IF section = "main" THEN <<"m", "a", "i", "n">>
    ELSE IF section = "extra" THEN <<"e", "x", "t", "r", "a">>
    ELSE <<"s", "i", "d", "e">>

WordsIn(line) == {section \in Sections : Contains(Lower(line), WordOf(section))}

\* the pool task of file f executes one iteration of its loop over lines
LineStep(f) ==
    /\ worker[f].pc = "loop"
    /\ worker[f].i <= Len(worker[f].lines)
    /\ worker'[f].i = worker[f].i + 1

\* the line that iteration reads
CurrentLine(f) == worker[f].lines[worker[f].i]

\* the sum of fn[x] over the x in S
RECURSIVE SumFn(_, _)
SumFn(fn, S) ==
    IF S = {} THEN 0
    ELSE LET x == CHOOSE y \in S : TRUE
         IN  fn[x] + SumFn(fn, S \ {x})

\* the element-wise sum of a family of counters, one per file of S
ElementwiseSum(counters, S) ==
    [k \in UNION {DOMAIN counters[f] : f \in S} |->
        SumFn([f \in S |-> Count(counters[f], k)], S)]

\* the element-wise sum of a family of results
SumOfResults(results, S) ==
    [global_freq |-> ElementwiseSum([f \in S |-> results[f].global_freq], S),
     deck_type_freq |->
        [section \in Sections |->
            ElementwiseSum([f \in S |-> results[f].deck_type_freq[section]], S)],
     deck_occurrences |-> ElementwiseSum([f \in S |-> results[f].deck_occurrences], S),
     cooccurrence |-> ElementwiseSum([f \in S |-> results[f].cooccurrence], S)]

\* the stored co-occurrence count of the unordered pair {a, b}
PairCount(cooccurrence, a, b) ==
    Count(cooccurrence, <<a, b>>) + Count(cooccurrence, <<b, a>>)

(***************************************************************************)
(* C1.  After aggregation, for every card in the total counter,            *)
(* total(card) = main(card) + extra(card) + side(card).                    *)
(***************************************************************************)
C1_TotalIsSumOfSections ==
    pc = "build" =>
        \A card \in DOMAIN total_global :
            total_global[card] = Count(total_deck_type.main, card)
                               + Count(total_deck_type.extra, card)
                               + Count(total_deck_type.side, card)

(***************************************************************************)
(* C4.  An all-digit line read while no section is active changes no       *)
(* counter: not the total count, not a section count, not the deck's       *)
(* unique card set (from which deck occurrences and co-occurrence pairs    *)
(* are counted).                                                           *)
(***************************************************************************)
C4_DigitLineWithoutSectionIgnored ==
    [][\A f \in FileIds :
          (LineStep(f) /\ IsDigit(CurrentLine(f))
                       /\ worker[f].st.current_section = "None")
          => /\ worker'[f].st.global_freq = worker[f].st.global_freq
             /\ worker'[f].st.deck_type_freq = worker[f].st.deck_type_freq
             /\ worker'[f].st.deck_cards_set = worker[f].st.deck_cards_set]_vars

(***************************************************************************)
(* C5.  A line beginning with "#" whose text contains "main", "extra" or   *)
(* "side" in any letter case sets the active section to that section; only *)
(* a "#" line containing none of the three words clears it.                *)
(***************************************************************************)
C5_HashMarkerBySubstring ==
    [][\A f \in FileIds :
          (LineStep(f) /\ StartsWith(CurrentLine(f), <<"#">>))
          => /\ \A section \in Sections :
                   WordsIn(CurrentLine(f)) = {section}
                   => worker'[f].st.current_section = section
             /\ worker'[f].st.current_section = "None"
                   => WordsIn(CurrentLine(f)) = {}]_vars

(***************************************************************************)
(* C9.  A line beginning with "!" sets the active section to SIDE whatever *)
(* its text and whatever section was active; the section stays SIDE until  *)
(* the next "#" line, and every all-digit line read meanwhile adds one to  *)
(* the side count and one to the total count of its card.  The deck        *)
(* "#main 1 1 2 #extra 3 !side 4" yields 1: total 2 main 2, 2: total 1     *)
(* main 1, 3: total 1 extra 1, 4: total 1 side 1, and co-occurrence 1 for  *)
(* each of the six pairs over {1, 2, 3, 4}.                                *)
(***************************************************************************)
C9_BangStep(f) ==
    LET line   == CurrentLine(f)
        before == worker[f].st
        after  == worker'[f].st
    IN  /\ StartsWith(line, <<"!">>) => after.current_section = "side"
        /\ (before.current_section = "side" /\ ~StartsWith(line, <<"#">>))
              => after.current_section = "side"
        /\ (before.current_section = "side" /\ IsDigit(line))
              => /\ Count(after.deck_type_freq.side, line)
                        = Count(before.deck_type_freq.side, line) + 1
                 /\ Count(after.global_freq, line) = Count(before.global_freq, line) + 1
                 /\ after.deck_type_freq.main = before.deck_type_freq.main
                 /\ after.deck_type_freq.extra = before.deck_type_freq.extra
                 /\ \A card \in DOMAIN after.global_freq \ {line} :
                       /\ Count(after.global_freq, card) = Count(before.global_freq, card)
                       /\ Count(after.deck_type_freq.side, card)
                             = Count(before.deck_type_freq.side, card)

C9_ExampleResult ==
    [global_freq |-> (<<"1">> :> 2) @@ (<<"2">> :> 1) @@ (<<"3">> :> 1) @@ (<<"4">> :> 1),
     deck_type_freq |-> [main  |-> (<<"1">> :> 2) @@ (<<"2">> :> 1),
                         extra |-> (<<"3">> :> 1),
                         side  |-> (<<"4">> :> 1)],
     deck_occurrences |-> [card \in {<<"1">>, <<"2">>, <<"3">>, <<"4">>} |-> 1],
     cooccurrence |->
        [pair \in {<< <<"1">>, <<"2">> >>, << <<"1">>, <<"3">> >>, << <<"1">>, <<"4">> >>,
                   << <<"2">>, <<"3">> >>, << <<"2">>, <<"4">> >>, << <<"3">>, <<"4">> >>}
            |-> 1]]

C9_ExampleDeckCounted ==
    \A f \in FileIds :
        (files[f] = ExampleDeck /\ futures[f].state # "pending" /\ f \notin read_error)
        => futures[f].result = C9_ExampleResult

C9_BangForcesSide ==
    /\ [][\A f \in FileIds : LineStep(f) => C9_BangStep(f)]_vars
    /\ []C9_ExampleDeckCounted

\* a "!main" line has been read while MAIN was active, and a card after it has
\* been counted in the side section
C9_Witness ==
    \E f \in FileIds :
        /\ worker[f].pc = "loop"
        /\ worker[f].i = 4
        /\ worker[f].lines[1] = HashMain
        /\ worker[f].lines[2] = <<"!", "m", "a", "i", "n">>
        /\ IsDigit(worker[f].lines[3])
        /\ Count(worker[f].st.deck_type_freq.side, worker[f].lines[3]) = 1
        /\ Count(worker[f].st.global_freq, worker[f].lines[3]) = 1

(***************************************************************************)
(* Vocabulary of the aggregation properties.                               *)
(***************************************************************************)
\* the futures whose result the collecting thread has merged
Collected == {f \in FileIds : futures[f].state = "collected"}

\* the files that were read without an error
Readable == FileIds \ read_error

\* main is in, or has just left, parse_ydk_files_parallel; the totals are not
\* assigned afterwards
Aggregating == pc \in {"parse", "build"}

\* every card on an all-digit line of some deck file
AllCards == UNION {CardsOf(files[f]) : f \in FileIds}

\* the merged, readable decks in which both a and b appear at least once
DecksWithBoth(a, b) ==
    {f \in Collected \cap Readable : a \in CardsOf(files[f]) /\ b \in CardsOf(files[f])}

\* what process_deck_file returns for file f when the read succeeds
ResultIfRead(f) ==
    process_deck_file(files[f], NoError,
                      CHOOSE order \in IterationOrders(CardsOf(files[f])) : TRUE)

\* the results of the files of S, merged one after the other into empty totals
RECURSIVE Aggregate(_)
Aggregate(S) ==
    IF S = {} THEN EmptyResult
    ELSE LET f == CHOOSE x \in S : TRUE
         IN  MergeResult(Aggregate(S \ {f}), futures[f].result)

C3_TotalsAreSum ==
    Aggregating =>
        Totals = SumOfResults([f \in FileIds |-> futures[f].result], Collected)

C3_ResultDependsOnFileOnly ==
    Aggregating =>
        \A f \in FileIds :
            futures[f].state # "pending"
            => futures[f].result
                  = (IF f \in read_error THEN EmptyResult ELSE ResultIfRead(f))

C3_PartitionsMerge ==
    pc = "build" =>
        \A S \in SUBSET FileIds :
            MergeResult(Aggregate(S), Aggregate(FileIds \ S)) = Totals

C3_OnlyCollectorWrites ==
    /\ (\E f \in FileIds : futures[f].state = "pending" /\ futures'[f].state = "finished")
          => UNCHANGED <<total_global, total_deck_type, total_occurrences,
                         total_cooccurrence>>
    /\ <<total_global, total_deck_type, total_occurrences, total_cooccurrence>>'
          # <<total_global, total_deck_type, total_occurrences, total_cooccurrence>>
          => (completed # <<>> /\ completed' = Tail(completed))

C3_OrderIndependentTotals ==
    /\ [](C3_TotalsAreSum /\ C3_ResultDependsOnFileOnly /\ C3_PartitionsMerge)
    /\ [][C3_OnlyCollectorWrites]_vars

\* the second file's result has been merged while the first file's result,
\* which shares a card with it, still waits
C3_Witness ==
    /\ NumFiles >= 2
    /\ futures[2].state = "collected"
    /\ futures[1].state = "finished"
    /\ DOMAIN futures[1].result.global_freq \cap DOMAIN futures[2].result.global_freq # {}
    /\ DOMAIN futures[1].result.cooccurrence \cap DOMAIN futures[2].result.cooccurrence # {}

(***************************************************************************)
(* C6.  A file whose read raises, at open or part-way, yields four empty   *)
(* counters; every future is still collected, and the totals returned are  *)
(* those of the readable files alone.                                      *)
(***************************************************************************)
C6_ReadErrorContributesNothing ==
    /\ Aggregating => \A f \in read_error :
          /\ futures[f].state # "pending"
          /\ DOMAIN futures[f].result.global_freq = {}
          /\ \A section \in Sections : DOMAIN futures[f].result.deck_type_freq[section] = {}
          /\ DOMAIN futures[f].result.deck_occurrences = {}
          /\ DOMAIN futures[f].result.cooccurrence = {}
    /\ pc = "build" =>
          /\ Collected = FileIds
          /\ Totals = SumOfResults([f \in Readable |-> ResultIfRead(f)], Readable)

\* aggregation is over, a file holding cards could not be read and another
\* file could
C6_Witness ==
    /\ pc = "build"
    /\ \E f \in read_error : Cardinality(CardsOf(files[f])) >= 2
    /\ \E f \in Readable : Cardinality(CardsOf(files[f])) >= 2

(***************************************************************************)
(* C7.  In the graph build_graph returns for threshold T, an edge between  *)
(* A and B exists if and only if the co-occurrence count of {A, B} is      *)
(* >= T; every card of a co-occurrence pair is a node; the edge's weight   *)
(* is the stored count; there is no self-loop and the adjacency is         *)
(* symmetric.                                                              *)
(***************************************************************************)
C7_GraphIsSimple ==
    /\ DOMAIN G.adj = DOMAIN G.node
    /\ \A key \in DOMAIN total_cooccurrence :
          key[1] \in DOMAIN G.node /\ key[2] \in DOMAIN G.node
    /\ \A u \in DOMAIN G.adj :
          /\ u \notin DOMAIN G.adj[u]
          /\ \A v \in DOMAIN G.adj[u] :
                /\ v \in DOMAIN G.adj
                /\ u \in DOMAIN G.adj[v]
                /\ G.adj[v][u] = G.adj[u][v]
                /\ G.adj[u][v] = PairCount(total_cooccurrence, u, v)

C7_EdgeIffCountAtLeastT ==
    pc = "print" =>
        /\ C7_GraphIsSimple
        /\ \A a \in AllCards : \A b \in AllCards \ {a} :
              ({a, b} \in Edges(G))
                 <=> (PairCount(total_cooccurrence, a, b) >= min_edge_weight)

\* C7 as amended: an edge exists if and only if the pair has co-occurred in at
\* least one deck and its count is >= T
C7_EdgeIffStoredCountAtLeastT ==
    pc = "print" =>
        /\ C7_GraphIsSimple
        /\ \A a \in AllCards : \A b \in AllCards \ {a} :
              ({a, b} \in Edges(G))
                 <=> /\ PairCount(total_cooccurrence, a, b) >= 1
                     /\ PairCount(total_cooccurrence, a, b) >= min_edge_weight

\* a graph built with threshold 2 that keeps a pair of count 2 and drops a
\* pair of count 1
C7_Witness ==
    /\ pc = "print"
    /\ min_edge_weight = 2
    /\ \E key \in DOMAIN total_cooccurrence :
          total_cooccurrence[key] = 2 /\ {key[1], key[2]} \in Edges(G)
    /\ \E key \in DOMAIN total_cooccurrence :
          total_cooccurrence[key] = 1 /\ {key[1], key[2]} \notin Edges(G)

(***************************************************************************)
(* C8.  A card is a node of the graph if and only if it was counted in a   *)
(* section of some parsed deck, and every catalog card is either a node or *)
(* in the unused-cards report, never both.                                 *)
(***************************************************************************)
C8_NodeIffPlayedInSection ==
    pc = "done" =>
        /\ \A card \in AllCards \cup DOMAIN card_dict :
              (card \in DOMAIN G.node)
                 <=> (\E section \in Sections : Count(total_deck_type[section], card) >= 1)
        /\ \A cid \in DOMAIN card_dict :
              (cid \in DOMAIN G.node) <=> (card_dict[cid].name \notin unused_cards)

(***************************************************************************)
(* C10.  For fixed statistics and thresholds T1 <= T2, the edges of the    *)
(* graph built with T2 are among the edges of the graph built with T1, the *)
(* nodes are the same, one per counted card, also when no edge qualifies.  *)
(***************************************************************************)
C10_RaisingThresholdDropsEdges ==
    pc = "print" =>
        /\ DOMAIN G.node = DOMAIN total_global
        /\ \A other \in (-1)..(MaxThreshold + 1) :
              LET H == build_graph(total_global, total_cooccurrence, card_dict, other)
              IN  /\ DOMAIN H.node = DOMAIN G.node
                  /\ other >= min_edge_weight
                        => /\ Edges(H) \subseteq Edges(G)
                           /\ Cardinality(Edges(H)) <= Cardinality(Edges(G))
                  /\ other <= min_edge_weight
                        => /\ Edges(G) \subseteq Edges(H)
                           /\ Cardinality(Edges(G)) <= Cardinality(Edges(H))

\* a threshold that no pair reaches although pairs were counted: the graph has
\* its nodes and no edge
C10_Witness ==
    /\ pc = "print"
    /\ DOMAIN total_cooccurrence # {}
    /\ Edges(G) = {}
    /\ DOMAIN G.node # {}
    /\ Edges(build_graph(total_global, total_cooccurrence, card_dict, 1)) # {}

====
